---- MODULE Spec2Model ----
(***************************************************************************)
(* Model of the evacuation simulator's tick engine (sim/engine/simulator.py *)
(* with sim/agents, sim/policy and sim/pathfinding): in grid mode, i.e.     *)
(* with a cell hazard field, so that Simulator.grid_pathfinder is set, and  *)
(* in room mode, without one, where agents follow room paths and queue for  *)
(* stairs.                                                                 *)
(*                                                                         *)
(* Units: lengths in millimetres, times in milliseconds, danger in percent. *)
(* A cell is named by its integer grid index <<i, j>>; its centre is at     *)
(* (0.5*i + 0.25, 0.5*j + 0.25) metres.                                     *)
(***************************************************************************)
EXTENDS Integers, Sequences, FiniteSets, TLC

VARIABLES
    agents,     \* AgentManager.agents: agent id -> Agent fields
    rooms,      \* Environment.rooms: room id -> mutable Room fields
    burning,    \* cells of hazard_system.cells with is_burning
    events,     \* Simulator.events
    tick,       \* Simulator.tick
    time,       \* Simulator.time
    running,    \* Simulator.running
    complete,   \* Simulator.complete
    params,     \* the parameters and the layout's evacuee counts (inputs)
    pc,         \* position of the caller: "idle", "running" (inside run()), "returned"
    max_ticks,  \* local max_ticks of run()
    stairs,     \* AgentManager.stair_occupancy and AgentManager.stair_queues
    call        \* the last direct call of find_path or calculate_priority_index
                \* by a script, with its arguments and its return value

vars == <<agents, rooms, burning, events, tick, time, running, complete, params, pc,
          max_ticks, stairs, call>>

(***************************************************************************)
(* Bounds of the model.                                                    *)
(***************************************************************************)
MaxAgents == 2
MaxBurning == 2
MaxTick == 40
MaxEvacuees == 2
MaxStairAgents == 4

(***************************************************************************)
(* The layout: a corridor (hallway H with a stair cell S) from the exit E,  *)
(* two offices O1 and O2 above it, a wall cell between them.                *)
(*                                                                         *)
(*    j=1:   O1    wall   O2    H                                          *)
(*    j=0:   H     S      H     E                                          *)
(*          i=0    i=1    i=2   i=3                                        *)
(***************************************************************************)
NoCell == <<-1, -1>>
NoRoom == "none"
NoAgent == 0 - 1

\* hazard_system.cells: the layout is params.rows cells high; the simulator
\* runs on the two rows drawn above, find_path is also called on a grid with
\* a third row of hallway cells (j = 2) above the offices.
GridCells == {<<i, j>> : i \in 0..3, j \in 0..(params.rows - 1)}

wall_cells == {<<1, 1>>}

RoomIds == {"E", "H", "S", "O1", "O2"}

\* Room ids in layout order; get_uncleared_rooms and exits iterate in it.
OfficeOrder == <<"O1", "O2">>
exits == <<"E">>

is_exit(r) == r = "E"
is_stair(r) == r = "S"
IsOffice(r) == r \in {"O1", "O2"}

\* cell.room_id
CellRoom(c) ==
    CASE c = <<3, 0>> -> "E"
      [] c = <<1, 0>> -> "S"
      [] c = <<0, 1>> -> "O1"
      [] c = <<2, 1>> -> "O2"
      [] OTHER -> "H"

\* The cell holding the room's centre (room.x, room.y).
RoomCell(r) ==
    CASE r = "E" -> <<3, 0>>
      [] r = "S" -> <<1, 0>>
      [] r = "O1" -> <<0, 1>>
      [] r = "O2" -> <<2, 1>>
      [] OTHER -> <<2, 0>>

RoomCells(r) == {c \in GridCells \ wall_cells : CellRoom(c) = r}

\* room.area of an office, in square metres.
RoomArea(r) == 100

\* Cells the fire is lit in at t = 0 when the hazard is enabled.
IgnitionCells == {<<3, 1>>}

Abs(n) == IF n < 0 THEN -n ELSE n
Max(a, b) == IF a >= b THEN a ELSE b
Min(a, b) == IF a <= b THEN a ELSE b

Chebyshev(a, b) == Max(Abs(a[1] - b[1]), Abs(a[2] - b[2]))
Manhattan(a, b) == Abs(a[1] - b[1]) + Abs(a[2] - b[2])

Neighbours8(c) ==
    {n \in GridCells : Chebyshev(n, c) = 1}

(***************************************************************************)
(* Hazard cell field (sim/env, described in spec section 4.1).             *)
(***************************************************************************)
\* danger_radius in cells and max_danger in percent.
DangerRadius == 5
MaxDanger == 100

\* cell.danger_level: max over burning cells b within the radius of
\* max_danger * (1 - d(c, b) / danger_radius); walls carry no danger.
danger_level(b, c) ==
    IF c \in wall_cells THEN 0
    ELSE LET near == {x \in b : Chebyshev(c, x) < DangerRadius}
             vals == {(MaxDanger * (DangerRadius - Chebyshev(c, x))) \div DangerRadius : x \in near}
         IN IF vals = {} THEN 0 ELSE CHOOSE v \in vals : \A u \in vals : u <= v

\* Cells a burning cell may ignite in one tick: non-wall 8-neighbours.
Frontier(b) ==
    {c \in GridCells \ (wall_cells \cup b) : \E x \in b : Chebyshev(c, x) = 1}

RECURSIVE SumDanger(_, _)
SumDanger(b, cs) ==
    IF cs = {} THEN 0
    ELSE LET c == CHOOSE x \in cs : TRUE
         IN danger_level(b, c) + SumDanger(b, cs \ {c})

\* room.hazard: mean danger of the room's cells, in percent (rounded down).
RoomHazard(b, r) == SumDanger(b, RoomCells(r)) \div Cardinality(RoomCells(r))

(***************************************************************************)
(* Grid A* pathfinder (sim/pathfinding/grid_astar.py).  A path is a         *)
(* sequence of cells; the empty sequence stands for None.                  *)
(***************************************************************************)
NoG == 0 - 1

\* GridPathfinder._is_valid_cell
IsValidCell(b, cell, avoid_danger, danger_threshold) ==
    IF cell \in wall_cells THEN FALSE
    ELSE IF cell \notin GridCells THEN FALSE
    ELSE IF avoid_danger /\ cell \in b THEN FALSE
    ELSE IF avoid_danger /\ danger_level(b, cell) > danger_threshold THEN FALSE
    ELSE TRUE

\* GridPathfinder._edge_cost: 0.5 straight, 1.414 * 0.5 diagonal, plus
\* danger_level * 10.0 when avoid_danger is on.
EdgeCost(b, from_cell, to_cell, avoid_danger) ==
    LET base_cost == IF from_cell[1] # to_cell[1] /\ from_cell[2] # to_cell[2]
                     THEN 707 ELSE 500
    IN IF avoid_danger /\ to_cell \in GridCells
       THEN base_cost + danger_level(b, to_cell) * 100
       ELSE base_cost

\* GridPathfinder._heuristic: Manhattan distance between the cell centres.
Heuristic(cell1, cell2) == 500 * Manhattan(cell1, cell2)

\* Order of the heap entries (f, (x, y)): Python's tuple comparison.
HeapLeq(e, o) ==
    \/ e[1] < o[1]
    \/ e[1] = o[1] /\ e[2][1] < o[2][1]
    \/ e[1] = o[1] /\ e[2][1] = o[2][1] /\ e[2][2] <= o[2][2]

\* GridPathfinder._reconstruct_path
RECURSIVE ReconstructPath(_, _)
ReconstructPath(came_from, current) ==
    IF came_from[current] = NoCell THEN <<current>>
    ELSE Append(ReconstructPath(came_from, came_from[current]), current)

\* The while loop of GridPathfinder.find_path.  open_set is the heap's
\* content; popping the least entry of a heap of totally ordered tuples is
\* taking the minimum of the set.
RECURSIVE AStarLoop(_, _, _, _, _, _, _, _)
AStarLoop(b, goal_cell, avoid_danger, danger_threshold, open_set, g_score, came_from, closed_set) ==
    IF open_set = {} THEN <<>>
    ELSE LET top == CHOOSE e \in open_set : \A o \in open_set : HeapLeq(e, o)
             current == top[2]
             rest == open_set \ {top}
         IN IF current = goal_cell THEN ReconstructPath(came_from, current)
            ELSE IF current \in closed_set
            THEN AStarLoop(b, goal_cell, avoid_danger, danger_threshold, rest, g_score, came_from, closed_set)
            ELSE LET closed2 == closed_set \cup {current}
                     tentative(n) == g_score[current] + EdgeCost(b, current, n, avoid_danger)
                     better == {n \in Neighbours8(current) :
                                  /\ IsValidCell(b, n, avoid_danger, danger_threshold)
                                  /\ n \notin closed2
                                  /\ (g_score[n] = NoG \/ tentative(n) < g_score[n])}
                     g2 == [n \in GridCells |-> IF n \in better THEN tentative(n) ELSE g_score[n]]
                     came2 == [n \in GridCells |-> IF n \in better THEN current ELSE came_from[n]]
                     open2 == rest \cup {<<g2[n] + Heuristic(n, goal_cell), n>> : n \in better}
                 IN AStarLoop(b, goal_cell, avoid_danger, danger_threshold, open2, g2, came2, closed2)

\* GridPathfinder._find_nearest_valid_cell: the non-wall cell nearest (in
\* Manhattan distance) to a position, here the centre of cell c.
FindNearestValidCell(c) ==
    LET ok == GridCells \ wall_cells
    IN IF ok = {} THEN NoCell
       ELSE CHOOSE n \in ok : \A o \in ok :
                \/ Manhattan(n, c) < Manhattan(o, c)
                \/ Manhattan(n, c) = Manhattan(o, c) /\ HeapLeq(<<0, n>>, <<0, o>>)

\* GridPathfinder.find_path from the position in cell `from` to the
\* position in cell `to`.
find_path(b, from, to, avoid_danger, danger_threshold) ==
    LET snap(c) == IF c \notin GridCells \/ c \in wall_cells
                   THEN FindNearestValidCell(c) ELSE c
        start_cell == snap(from)
        goal_cell == snap(to)
    IN IF start_cell = NoCell \/ goal_cell = NoCell THEN <<>>
       ELSE AStarLoop(b, goal_cell, avoid_danger, danger_threshold,
                      {<<0, start_cell>>},
                      [n \in GridCells |-> IF n = start_cell THEN 0 ELSE NoG],
                      [n \in GridCells |-> NoCell],
                      {})

(***************************************************************************)
(* The world a tick works on: a record of the mutable state.               *)
(***************************************************************************)
World ==
    [agents |-> agents, rooms |-> rooms, burning |-> burning, events |-> events,
     tick |-> tick, time |-> time, running |-> running, complete |-> complete,
     stairs |-> stairs]

NumAgents(w) == Cardinality(DOMAIN w.agents)

\* Agent.__init__ (agent.py), with the escaped flag simulator.py reads and
\* writes; AgentManager._initialize_agents places every agent at the first
\* exit's centre because the layout gives no agent_starts.
NewAgent(start_cell) ==
    [cell |-> start_cell, rem |-> 0, current_room |-> CellRoom(start_cell),
     state |-> "idle", target_room |-> NoRoom,
     path |-> <<>>, path_index |-> 0,
     target_cell |-> NoCell, moving_to_room |-> FALSE,
     waypoints |-> <<>>, current_waypoint |-> 0,
     time_remaining_action |-> 0, time_in_current_state |-> 0,
     carrying_evacuee |-> FALSE, evacuee_source_room |-> NoRoom,
     total_distance_traveled |-> 0, rooms_cleared |-> 0, evacuees_rescued |-> 0,
     cumulative_hazard_exposure |-> 0,
     is_dead |-> FALSE, escaped |-> FALSE]

\* Simulator.log_event
LogEvent(w, event_type, agent_id, room_id, info) ==
    [w EXCEPT !.events = Append(@, [tick |-> w.tick, time |-> w.time, type |-> event_type,
                                    agent |-> agent_id, room |-> room_id, info |-> info])]

(***************************************************************************)
(* Environment and Room operations (sim/env).                              *)
(***************************************************************************)
\* update_hazards with a slip: a cell burns out once its neighbours ignite.
UpdateHazardsBurnOut(w, newly) ==
    [w EXCEPT !.burning = IF newly = {} THEN @ ELSE newly]

\* Environment.update_hazards: the cells in `newly` catch fire.
UpdateHazards(w, newly) == [w EXCEPT !.burning = @ \cup newly]

RECURSIVE SumRemaining(_, _)
SumRemaining(rs, ids) ==
    IF ids = {} THEN 0
    ELSE LET r == CHOOSE x \in ids : TRUE
         IN rs[r].evacuees_remaining + SumRemaining(rs, ids \ {r})

\* Environment.get_remaining_evacuees
GetRemainingEvacuees(w) == SumRemaining(w.rooms, RoomIds)

RECURSIVE SumCount(_, _)
SumCount(f, ids) ==
    IF ids = {} THEN 0
    ELSE LET r == CHOOSE x \in ids : TRUE IN f[r] + SumCount(f, ids \ {r})

\* Environment.get_total_evacuees
GetTotalEvacuees == SumCount(params.evacuees, RoomIds)

\* Environment.get_uncleared_rooms: the offices still in the priority pool,
\* in layout order: not yet searched, or searched with evacuees left.
GetUnclearedRooms(w) ==
    SelectSeq(OfficeOrder, LAMBDA r : ~w.rooms[r].cleared \/ w.rooms[r].evacuees_remaining > 0)

\* Room.mark_cleared
MarkCleared(w, r) == [w EXCEPT !.rooms[r].cleared = TRUE, !.rooms[r].cleared_tick = w.tick]

\* Room.discover_evacuees: marks the room discovered, returns the evacuees in it.
DiscoverEvacuees(w, r) == [w EXCEPT !.rooms[r].discovered_evacuees = TRUE]
DiscoveredCount(w, r) == w.rooms[r].evacuees_remaining

\* Room.rescue_evacuee: one evacuee leaves the room.
RescueEvacuee(w, r) == [w EXCEPT !.rooms[r].evacuees_remaining = @ - 1]

\* Environment.get_room_at_position
GetRoomAtPosition(c) == CellRoom(c)

(***************************************************************************)
(* Decision engine (sim/policy/decision_engine.py).  A priority is a       *)
(* fraction <<numerator, denominator>> with a positive denominator.        *)
(***************************************************************************)
PriGreater(p, q) == p[1] * q[2] > q[1] * p[2]

\* A fraction in lowest terms (the value of the float it stands for).
RECURSIVE GCD(_, _)
GCD(a, b) == IF b = 0 THEN a ELSE GCD(b, a % b)

Reduce(p) == <<p[1] \div GCD(p[1], p[2]), p[2] \div GCD(p[1], p[2])>>

\* Python's round(n2 / 2): halves go to the even neighbour.
RoundHalfEven(n2) ==
    IF n2 % 2 = 0 THEN n2 \div 2
    ELSE LET lo == (n2 - 1) \div 2 IN IF lo % 2 = 0 THEN lo ELSE lo + 1

\* conn['door_pos'] of the office's connection, in units of 0.25 m.
DoorPos(r) == IF r = "O1" THEN <<1, 2>> ELSE <<5, 2>>

\* The cells calculate_priority_index samples around the door.
DoorCells(r) ==
    {c \in GridCells : \E kx \in -2..2, ky \in -1..1 :
        c = <<RoundHalfEven(DoorPos(r)[1] + kx), RoundHalfEven(DoorPos(r)[2] + ky)>>}

\* The layout's connections (undirected room graph).
Connections == {{"E", "H"}, {"H", "S"}, {"H", "O1"}, {"H", "O2"}}

RECURSIVE ReachableRooms(_)
ReachableRooms(seen) ==
    LET more == {r \in RoomIds : \E s \in seen : {r, s} \in Connections} \ seen
    IN IF more = {} THEN seen ELSE ReachableRooms(seen \cup more)

\* Environment.get_shortest_path(a, b) is not None
HasRoomPath(a, b) == b \in ReachableRooms({a})

\* The arithmetic of calculate_priority_index with a slip: the distance is
\* not divided by ten.
PriorityFormulaPlainDistance(E_i, D_i, distance) ==
    <<E_i * (100 + D_i) * 100, Max(distance, 5000)>>

\* The arithmetic at the end of calculate_priority_index, for an accessible
\* room: numerator E * (10 + 10 * D) over denominator max(distance, 5) / 10.
\* With D = D_i / 100 and the distance in metres = mm / 1000 this is
\* E * (100 + D_i) * 1000 / max(mm, 5000).
PriorityFormula(E_i, D_i, distance) ==
    <<E_i * (100 + D_i) * 1000, Max(distance, 5000)>>

\* DecisionEngine.calculate_priority_index; agent_position is a room id.
calculate_priority_index(w, room_id, agent_position) ==
    LET E_i == w.rooms[room_id].evacuees_remaining
        door_blocked == \E c \in DoorCells(room_id) :
                            c \in w.burning \/ danger_level(w.burning, c) > 85
        D_i == RoomHazard(w.burning, room_id)
        distance == 500 * Manhattan(RoomCell(room_id), RoomCell(agent_position))
    IN IF E_i = 0 THEN <<0, 1>>
       ELSE IF ~HasRoomPath(agent_position, room_id) THEN <<0, 1>>
       ELSE IF door_blocked THEN <<0, 1>>
       ELSE PriorityFormula(E_i, D_i, distance)

\* DecisionEngine.estimate_service_time, in ms rounded up:
\* base * (1 + area / 100 * 0.5) * (1 + hazard * 0.5).
estimate_service_time(w, room_id) ==
    LET num == params.service_time_base * (200 + RoomArea(room_id))
                 * (200 + RoomHazard(w.burning, room_id))
    IN (num + 39999) \div 40000

(***************************************************************************)
(* Agent movement (sim/agents/agent.py).                                   *)
(***************************************************************************)
\* Distance between the centres of two cells: 0.5 m per step, 0.707 m per
\* diagonal step.
CellDist(a, b) ==
    LET dx == Abs(a[1] - b[1])
        dy == Abs(a[2] - b[2])
    IN 707 * Min(dx, dy) + 500 * (Max(dx, dy) - Min(dx, dy))

\* Distance from the agent's position to the centre of cell `target`: the
\* agent stands on the centre of a.cell (rem = 0) or rem short of the
\* waypoint it is moving to.
DistanceTo(a, target) == IF a.rem > 0 THEN a.rem ELSE CellDist(a.cell, target)

\* Agent.move_towards returns True: within 0.1 m of the target.
MoveReached(a, target) == DistanceTo(a, target) < 100

\* Agent.move_towards: the agent after the call.
move_towards(a, target, speed, dt) ==
    LET distance == DistanceTo(a, target)
        move_dist == Min((speed * dt) \div 1000, distance)
        left == distance - move_dist
    IN IF distance < 100
       THEN [a EXCEPT !.cell = target, !.rem = 0]
       ELSE [a EXCEPT !.cell = IF left = 0 \/ a.cell = target \/ 2 * left < CellDist(a.cell, target)
                                THEN target ELSE a.cell,
                      !.rem = left,
                      !.total_distance_traveled = @ + move_dist]

\* Agent.clear_target
clear_target(a) ==
    [a EXCEPT !.target_room = NoRoom, !.path = <<>>, !.path_index = 0, !.state = "idle"]

\* Agent.set_target
set_target(a, room_id, path) ==
    [a EXCEPT !.target_room = room_id, !.path = path, !.path_index = 0,
              !.state = IF a.state = "idle" THEN "moving" ELSE a.state]

\* Agent.start_rescuing
start_rescuing(a, exit_room, path) ==
    [a EXCEPT !.state = "dragging", !.carrying_evacuee = TRUE, !.target_room = exit_room,
              !.path = path, !.path_index = 0]

\* Agent.start_searching
start_searching(a, service_time) ==
    [a EXCEPT !.state = "searching", !.time_remaining_action = service_time,
              !.time_in_current_state = 0]

\* Agent.complete_search
complete_search(a) == [a EXCEPT !.rooms_cleared = @ + 1, !.state = "idle"]

(***************************************************************************)
(* Room mode: the room graph (Environment.graph) of a layout whose office   *)
(* O1 lies behind the stair S:  E - H - S - O1,  H - O2.  Rooms stand at    *)
(* the centres RoomCell gives them.                                        *)
(***************************************************************************)
GraphEdges == {{"E", "H"}, {"H", "S"}, {"S", "O1"}, {"H", "O2"}}

\* graph.has_edge
has_edge(a, b) == {a, b} \in GraphEdges

\* edge['is_stair']: the edges that end in a stair room.
EdgeIsStair(a, b) == is_stair(a) \/ is_stair(b)

\* edge['distance']
EdgeDistance(a, b) == CellDist(RoomCell(a), RoomCell(b))

\* Environment.get_shortest_path: the room ids from a to b, <<>> when there
\* is no path.  The graph is a tree, so a path is unique.
RECURSIVE RoomPath(_, _, _)
RoomPath(a, b, seen) ==
    IF a = b THEN <<a>>
    ELSE LET nexts == {n \in RoomIds \ seen :
                          has_edge(a, n) /\ RoomPath(n, b, seen \cup {n}) # <<>>}
         IN IF nexts = {} THEN <<>>
            ELSE LET n == CHOOSE x \in nexts : TRUE
                 IN <<a>> \o RoomPath(n, b, seen \cup {n})

get_shortest_path(a, b) == RoomPath(a, b, {a})

\* Sum of edge['distance'] over path[k..].
RECURSIVE PathLengthFrom(_, _)
PathLengthFrom(path, k) ==
    IF k >= Len(path) THEN 0
    ELSE EdgeDistance(path[k], path[k + 1]) + PathLengthFrom(path, k + 1)

\* Environment.get_path_length
get_path_length(a, b) == PathLengthFrom(get_shortest_path(a, b), 1)

(***************************************************************************)
(* Stair occupancy and queues (sim/agents/agent_manager.py).               *)
(***************************************************************************)
\* AgentManager.is_stair_available
is_stair_available(w, stair_id, agent_id) ==
    w.stairs.occupancy[stair_id] = NoAgent \/ w.stairs.occupancy[stair_id] = agent_id

\* AgentManager.occupy_stair
occupy_stair(w, stair_id, agent_id) == [w EXCEPT !.stairs.occupancy[stair_id] = agent_id]

\* release_stair with a slip: the agent that queued last is served first.
release_stairLastFirst(w, stair_id) ==
    LET q == w.stairs.queues[stair_id]
        w1 == [w EXCEPT !.stairs.occupancy[stair_id] = NoAgent]
    IN IF q = <<>> THEN w1
       ELSE LET next_agent_id == q[Len(q)]
                w2 == [w1 EXCEPT !.stairs.queues[stair_id] = SubSeq(q, 1, Len(q) - 1)]
            IN IF next_agent_id \in DOMAIN w.agents
                  /\ w.agents[next_agent_id].state = "queued"
               THEN occupy_stair([w2 EXCEPT !.agents[next_agent_id].state = "moving"],
                                 stair_id, next_agent_id)
               ELSE w2

\* release_stair with a slip: the stair is freed but not handed to the
\* first agent of the queue.
release_stairNoHandOver(w, stair_id) ==
    [w EXCEPT !.stairs.occupancy[stair_id] = NoAgent]

\* AgentManager.release_stair
release_stair(w, stair_id) ==
    LET q == w.stairs.queues[stair_id]
        w1 == [w EXCEPT !.stairs.occupancy[stair_id] = NoAgent]
    IN IF q = <<>> THEN w1
       ELSE LET next_agent_id == Head(q)
                w2 == [w1 EXCEPT !.stairs.queues[stair_id] = Tail(q)]
            IN IF next_agent_id \in DOMAIN w.agents
                  /\ w.agents[next_agent_id].state = "queued"
               THEN occupy_stair([w2 EXCEPT !.agents[next_agent_id].state = "moving"],
                                 stair_id, next_agent_id)
               ELSE w2

\* AgentManager.enqueue_for_stair
enqueue_for_stair(w, stair_id, agent_id) ==
    LET q == w.stairs.queues[stair_id]
        w1 == IF \E k \in 1..Len(q) : q[k] = agent_id THEN w
              ELSE [w EXCEPT !.stairs.queues[stair_id] = Append(q, agent_id)]
    IN [w1 EXCEPT !.agents[agent_id].state = "queued"]

(***************************************************************************)
(* Room scores (sim/policy/decision_engine.py).  A score is a fraction     *)
(* <<numerator, denominator>>; all scores carry the same positive factor,  *)
(* which the comparison does not need.                                     *)
(***************************************************************************)
LCM(a, b) == (a * b) \div GCD(a, b)

\* Times are sums of distance / speed: in units of 1 / SpeedLcm seconds they
\* are whole numbers.
SpeedLcm == LCM(LCM(params.speed_hall, params.speed_stairs), params.speed_drag)

\* Agent.get_current_speed
get_current_speed(a, stair) ==
    IF a.carrying_evacuee THEN params.speed_drag
    ELSE IF stair THEN params.speed_stairs
    ELSE params.speed_hall

\* DecisionEngine.estimate_travel_time over path[k..], in 1 / SpeedLcm s.
RECURSIVE TravelTimeFrom(_, _, _)
TravelTimeFrom(a, path, k) ==
    IF k >= Len(path) THEN 0
    ELSE LET stair == has_edge(path[k], path[k + 1]) /\ EdgeIsStair(path[k], path[k + 1])
         IN EdgeDistance(path[k], path[k + 1]) * (SpeedLcm \div get_current_speed(a, stair))
              + TravelTimeFrom(a, path, k + 1)

estimate_travel_time(a, path) == TravelTimeFrom(a, path, 1)

\* DecisionEngine.score_room for a room that is scored: weight / total_time
\* with weight = area * (evacuee_count + 1) / (distance + 0.001) and no hazard.
RoomScoreOf(w, i, room_id, path) ==
    LET distance == PathLengthFrom(path, 1)
        service == estimate_service_time(w, room_id) * (SpeedLcm \div 1000)
        total_time == Max(estimate_travel_time(w.agents[i], path) + service, SpeedLcm \div 10)
    IN <<RoomArea(room_id) * (params.evacuees[room_id] + 1), (distance + 1) * total_time>>

\* s > t for two scores: the reciprocals are compared, whole part first.
ScoreGreater(s, t) ==
    \/ s[2] \div s[1] < t[2] \div t[1]
    \/ /\ s[2] \div s[1] = t[2] \div t[1]
       /\ (s[2] % s[1]) * t[1] < (t[2] % t[1]) * s[1]

\* The rooms DecisionEngine.score_room gives a score: not cleared, neither
\* exit nor stair, reachable.
ScoredRooms(w, i) ==
    SelectSeq(GetUnclearedRooms(w),
              LAMBDA r : /\ ~w.rooms[r].cleared
                         /\ ~is_exit(r) /\ ~is_stair(r)
                         /\ get_shortest_path(w.agents[i].current_room, r) # <<>>)

\* DecisionEngine.select_next_room: the first room of the highest score.
select_next_room(w, i) ==
    LET scored == ScoredRooms(w, i)
        path(r) == get_shortest_path(w.agents[i].current_room, r)
        score(r) == RoomScoreOf(w, i, r, path(r))
    IN IF scored = <<>> THEN [room |-> NoRoom, path |-> <<>>]
       ELSE LET k == CHOOSE k \in 1..Len(scored) :
                        /\ \A m \in 1..Len(scored) : ~ScoreGreater(score(scored[m]), score(scored[k]))
                        /\ \A m \in 1..(k - 1) : ScoreGreater(score(scored[k]), score(scored[m]))
            IN [room |-> scored[k], path |-> path(scored[k])]

\* DecisionEngine.get_path_to_exit
get_path_to_exit(room_id) ==
    [exit |-> exits[1], path |-> get_shortest_path(room_id, exits[1])]

(***************************************************************************)
(* Simulator (sim/engine/simulator.py).                                    *)
(***************************************************************************)
\* _check_agent_safety with a slip: the agent is marked dead but its state is
\* not reset to Idle.
CheckOneAgentSafetyKeepState(w, i) ==
    LET a == w.agents[i]
    IN IF a.is_dead THEN w
       ELSE IF a.cell \in GridCells
               /\ (danger_level(w.burning, a.cell) > 95 \/ a.cell \in w.burning)
       THEN LogEvent([w EXCEPT !.agents[i].is_dead = TRUE],
                     "simulation_end", i, a.current_room, "agent_death")
       ELSE w

\* The body of the loop of Simulator._check_agent_safety for agent i.
CheckOneAgentSafety(w, i) ==
    LET a == w.agents[i]
    IN IF a.is_dead THEN w
       ELSE IF a.cell \in GridCells
               /\ (danger_level(w.burning, a.cell) > 95 \/ a.cell \in w.burning)
       THEN LogEvent([w EXCEPT !.agents[i].is_dead = TRUE, !.agents[i].state = "idle"],
                     "simulation_end", i, a.current_room, "agent_death")
       ELSE w

RECURSIVE SafetyFrom(_, _)
SafetyFrom(w, i) ==
    IF i >= NumAgents(w) THEN w ELSE SafetyFrom(CheckOneAgentSafety(w, i), i + 1)

\* Simulator._check_agent_safety
CheckAgentSafety(w) == IF params.grid_pathfinder THEN SafetyFrom(w, 0) ELSE w

\* Simulator._assign_escape_route: the nearest exit with a safe path.
RECURSIVE EscapeScan(_, _, _, _)
EscapeScan(w, i, k, best) ==
    IF k > Len(exits) THEN best
    ELSE LET consider(grid_path) ==
                 IF Len(grid_path) > 1 /\ (best.exit = NoRoom \/ Len(grid_path) < Len(best.path))
                 THEN EscapeScan(w, i, k + 1, [exit |-> exits[k], path |-> grid_path])
                 ELSE EscapeScan(w, i, k + 1, best)
         IN consider(find_path(w.burning, w.agents[i].cell, RoomCell(exits[k]), TRUE, 85))

AssignEscapeRoute(w, i) ==
    LET escape(best) ==
            IF best.exit # NoRoom
            THEN LogEvent([w EXCEPT !.agents[i].target_room = best.exit,
                                    !.agents[i].waypoints = best.path,
                                    !.agents[i].current_waypoint = 0,
                                    !.agents[i].state = "escaping"],
                          "agent_move", i, w.agents[i].current_room, "escaping")
            ELSE w
    IN escape(EscapeScan(w, i, 1, [exit |-> NoRoom, path |-> <<>>]))

\* The loop of Simulator._assign_agent_target over the uncleared rooms.
RECURSIVE TargetScan(_, _, _, _, _)
TargetScan(w, i, pool, k, best) ==
    IF k > Len(pool) THEN best
    ELSE LET room_id == pool[k]
             take(priority, grid_path) ==
                 IF Len(grid_path) > 1
                 THEN TargetScan(w, i, pool, k + 1,
                                 [room |-> room_id, priority |-> priority, path |-> grid_path])
                 ELSE TargetScan(w, i, pool, k + 1, best)
             consider(priority) ==
                 IF PriGreater(priority, best.priority)
                 THEN take(priority,
                           find_path(w.burning, w.agents[i].cell, RoomCell(room_id), TRUE, 80))
                 ELSE TargetScan(w, i, pool, k + 1, best)
         IN consider(calculate_priority_index(w, room_id, w.agents[i].current_room))

\* Simulator._assign_agent_target
AssignAgentTarget(w, i) ==
    LET assign(best) ==
            IF best.room # NoRoom
            THEN LogEvent([w EXCEPT !.agents[i].target_room = best.room,
                                    !.agents[i].waypoints = best.path,
                                    !.agents[i].current_waypoint = 0,
                                    !.agents[i].state = "moving"],
                          "agent_move", i, w.agents[i].current_room, best.room)
            ELSE AssignEscapeRoute(w, i)
        fallback(room_score) ==
            IF room_score.room # NoRoom
            THEN LogEvent([w EXCEPT !.agents[i] =
                                       set_target(@, room_score.room, room_score.path)],
                          "agent_move", i, w.agents[i].current_room, room_score.room)
            ELSE w
    IN IF params.grid_pathfinder
       THEN assign(TargetScan(w, i, GetUnclearedRooms(w), 1,
                              [room |-> NoRoom, priority |-> <<0 - 1, 1>>, path |-> <<>>]))
       ELSE fallback(select_next_room(w, i))

\* Simulator._handle_arrival
HandleArrival(w, i) ==
    LET a == w.agents[i]
        target == a.target_room
        w1 == LogEvent(w, "agent_arrive", i, target, "")
    IN IF a.state = "escaping" /\ is_exit(target)
       THEN LogEvent([w1 EXCEPT !.agents[i] = [clear_target(a) EXCEPT !.escaped = TRUE]],
                     "agent_move", i, NoRoom, "escaped_safely")
       ELSE IF is_exit(target) /\ a.carrying_evacuee
       THEN [LogEvent(w1, "evacuee_rescued", i, target,
                      [source_room |-> a.evacuee_source_room,
                       priority |-> IF a.evacuee_source_room # NoRoom
                                    THEN calculate_priority_index(w, a.evacuee_source_room,
                                                                  a.current_room)
                                    ELSE <<0, 1>>])
               EXCEPT !.agents[i] = [clear_target(a) EXCEPT !.evacuees_rescued = @ + 1,
                                                            !.carrying_evacuee = FALSE,
                                                            !.evacuee_source_room = NoRoom]]
       ELSE IF ~w.rooms[target].cleared /\ ~is_exit(target)
       THEN LET service_time == estimate_service_time(w, target)
            IN LogEvent([w1 EXCEPT !.agents[i] = start_searching(a, service_time)],
                        "room_search_start", i, target, service_time)
       ELSE [w1 EXCEPT !.agents[i] = clear_target(a)]

\* Simulator._process_grid_movement
ProcessGridMovement(w, i) ==
    LET a == w.agents[i]
    IN IF a.current_waypoint >= Len(a.waypoints) THEN HandleArrival(w, i)
       ELSE LET target_cell == a.waypoints[a.current_waypoint + 1]
                speed == IF a.carrying_evacuee THEN params.speed_drag ELSE params.speed_hall
                moved == move_towards(a, target_cell, speed, params.dt)
            IN IF MoveReached(a, target_cell)
               THEN [w EXCEPT !.agents[i] = [moved EXCEPT !.current_waypoint = @ + 1,
                                                          !.current_room = GetRoomAtPosition(moved.cell)]]
               ELSE [w EXCEPT !.agents[i] = moved]

\* The speed _process_room_movement moves the agent with.
RoomMoveSpeed(a, current_room_id, next_room_id) ==
    IF has_edge(current_room_id, next_room_id) /\ EdgeIsStair(current_room_id, next_room_id)
    THEN params.speed_stairs
    ELSE IF a.carrying_evacuee THEN params.speed_drag
    ELSE params.speed_hall

\* Simulator._process_room_movement
ProcessRoomMovement(w, i) ==
    LET a == w.agents[i]
    IN IF a.path = <<>> \/ a.path_index >= Len(a.path) THEN HandleArrival(w, i)
       ELSE LET next_room_id == a.path[a.path_index + 1]
                current_room_id == a.current_room
                on_stair == /\ has_edge(current_room_id, next_room_id)
                            /\ EdgeIsStair(current_room_id, next_room_id)
                stair_id == IF is_stair(current_room_id) THEN current_room_id
                            ELSE next_room_id
                w1 == IF on_stair THEN occupy_stair(w, stair_id, i) ELSE w
                a1 == IF a.moving_to_room THEN a
                      ELSE [a EXCEPT !.target_cell = RoomCell(next_room_id),
                                     !.moving_to_room = TRUE]
                moved == move_towards(a1, a1.target_cell,
                                      RoomMoveSpeed(a, current_room_id, next_room_id),
                                      params.dt)
                arrived(w2) ==
                    LET w3 == IF is_stair(current_room_id)
                              THEN release_stair(w2, current_room_id) ELSE w2
                        w4 == LogEvent(w3, "agent_move", i, next_room_id, "")
                    IN IF w4.agents[i].path_index >= Len(w4.agents[i].path)
                       THEN HandleArrival(w4, i) ELSE w4
            IN IF on_stair /\ ~is_stair_available(w, stair_id, i)
               THEN LogEvent(enqueue_for_stair(w, stair_id, i), "agent_queued", i,
                             stair_id, "")
               ELSE IF MoveReached(a1, a1.target_cell)
               THEN arrived([w1 EXCEPT !.agents[i] =
                               [moved EXCEPT !.total_distance_traveled =
                                                @ + CellDist(moved.cell, RoomCell(next_room_id)),
                                             !.cell = RoomCell(next_room_id),
                                             !.rem = 0,
                                             !.current_room = next_room_id,
                                             !.path_index = @ + 1,
                                             !.moving_to_room = FALSE]])
               ELSE [w1 EXCEPT !.agents[i] = moved]

\* Simulator._process_movement
ProcessMovement(w, i) ==
    IF Len(w.agents[i].waypoints) > 0 /\ params.grid_pathfinder
    THEN ProcessGridMovement(w, i)
    ELSE IF w.agents[i].path # <<>> /\ w.agents[i].path_index < Len(w.agents[i].path)
    THEN ProcessRoomMovement(w, i)
    ELSE HandleArrival(w, i)

\* The nearest exit by Manhattan distance (the loop in _process_searching).
NearestExit(c) ==
    LET idx == CHOOSE k \in 1..Len(exits) :
                 \A m \in 1..Len(exits) :
                    \/ Manhattan(RoomCell(exits[k]), c) < Manhattan(RoomCell(exits[m]), c)
                    \/ Manhattan(RoomCell(exits[k]), c) = Manhattan(RoomCell(exits[m]), c) /\ k <= m
    IN exits[idx]

\* The pickup with a slip: the source room of the evacuee is not recorded.
PickUpNoSource(w, i) ==
    LET room_id == w.agents[i].current_room
        w1 == RescueEvacuee(w, room_id)
        w2 == [w1 EXCEPT !.agents[i].carrying_evacuee = TRUE]
        nearest_exit == NearestExit(w.agents[i].cell)
        drag(grid_path) ==
            IF Len(grid_path) > 0
            THEN [w2 EXCEPT !.agents[i].target_room = nearest_exit,
                            !.agents[i].waypoints = grid_path,
                            !.agents[i].current_waypoint = 0,
                            !.agents[i].state = "dragging"]
            ELSE w2
    IN drag(find_path(w.burning, w.agents[i].cell, RoomCell(nearest_exit), TRUE, 80))

\* The pickup at the end of a search: one evacuee leaves the room, the agent
\* carries it and drags it to the nearest exit when a path is found.
PickUp(w, i) ==
    LET room_id == w.agents[i].current_room
        w1 == RescueEvacuee(w, room_id)
        w2 == [w1 EXCEPT !.agents[i].carrying_evacuee = TRUE,
                         !.agents[i].evacuee_source_room = room_id]
        nearest_exit == NearestExit(w.agents[i].cell)
        drag(grid_path) ==
            IF Len(grid_path) > 0
            THEN [w2 EXCEPT !.agents[i].target_room = nearest_exit,
                            !.agents[i].waypoints = grid_path,
                            !.agents[i].current_waypoint = 0,
                            !.agents[i].state = "dragging"]
            ELSE w2
        rescue(to_exit) ==
            IF to_exit.exit # NoRoom /\ to_exit.path # <<>>
            THEN [w2 EXCEPT !.agents[i] = start_rescuing(@, to_exit.exit, to_exit.path)]
            ELSE w2
    IN IF params.grid_pathfinder
       THEN drag(find_path(w.burning, w.agents[i].cell, RoomCell(nearest_exit), TRUE, 80))
       ELSE rescue(get_path_to_exit(room_id))

\* _process_searching with a slip: the pickup is not guarded by
\* evacuees_remaining > 0.
ProcessSearchingNoGuard(w, i) ==
    LET a == [w.agents[i] EXCEPT !.time_remaining_action = @ - params.dt,
                                 !.time_in_current_state = @ + params.dt]
        w0 == [w EXCEPT !.agents[i] = a]
    IN IF a.time_remaining_action <= 0
       THEN LET room_id == a.current_room
                w1 == MarkCleared(w0, room_id)
                w2 == [w1 EXCEPT !.agents[i] = complete_search(a)]
                evac_count == DiscoveredCount(w2, room_id)
                w3 == DiscoverEvacuees(w2, room_id)
                w4 == LogEvent(w3, "room_cleared", i, room_id, evac_count)
                w5 == IF evac_count > 0
                      THEN LogEvent(w4, "evacuee_found", i, room_id, evac_count)
                      ELSE w4
            IN PickUp(w5, i)
       ELSE w0

\* Simulator._process_searching
ProcessSearching(w, i) ==
    LET a == [w.agents[i] EXCEPT !.time_remaining_action = @ - params.dt,
                                 !.time_in_current_state = @ + params.dt]
        w0 == [w EXCEPT !.agents[i] = a]
    IN IF a.time_remaining_action <= 0
       THEN LET room_id == a.current_room
                w1 == MarkCleared(w0, room_id)
                w2 == [w1 EXCEPT !.agents[i] = complete_search(a)]
                evac_count == DiscoveredCount(w2, room_id)
                w3 == DiscoverEvacuees(w2, room_id)
                w4 == LogEvent(w3, "room_cleared", i, room_id, evac_count)
                w5 == IF evac_count > 0
                      THEN LogEvent(w4, "evacuee_found", i, room_id, evac_count)
                      ELSE w4
            IN IF w5.rooms[room_id].evacuees_remaining > 0 THEN PickUp(w5, i) ELSE w5
       ELSE w0

\* Simulator._process_dragging
ProcessDragging(w, i) == ProcessMovement(w, i)

\* Simulator._process_queued
ProcessQueued(w, i) == w

\* Simulator._process_agent
ProcessAgent(w, i) ==
    LET st == w.agents[i].state
        expose(w1) ==
            [w1 EXCEPT !.agents[i].cumulative_hazard_exposure =
                          @ + RoomHazard(w1.burning, w1.agents[i].current_room) * params.dt]
    IN expose(CASE st = "idle" -> AssignAgentTarget(w, i)
                [] st = "moving" -> ProcessMovement(w, i)
                [] st = "searching" -> ProcessSearching(w, i)
                [] st = "dragging" -> ProcessDragging(w, i)
                [] st = "queued" -> ProcessQueued(w, i)
                [] OTHER -> w)

\* The agent loop with a slip: dead and escaped agents are processed too.
RECURSIVE ProcessFromAll(_, _)
ProcessFromAll(w, i) ==
    IF i >= NumAgents(w) THEN w
    ELSE ProcessFromAll(ProcessAgent(w, i), i + 1)

\* The agent loop of Simulator.step: dead and escaped agents are skipped.
RECURSIVE ProcessFrom(_, _)
ProcessFrom(w, i) ==
    IF i >= NumAgents(w) THEN w
    ELSE IF ~w.agents[i].is_dead /\ ~w.agents[i].escaped
    THEN ProcessFrom(ProcessAgent(w, i), i + 1)
    ELSE ProcessFrom(w, i + 1)

\* _check_completion with a slip: the dead-agents test comes before the
\* remaining-evacuees test.
CheckCompletionDeadFirst(w) ==
    LET done(reason) == LogEvent([w EXCEPT !.complete = TRUE, !.running = FALSE],
                                 "simulation_end", 0 - 1, NoRoom, reason)
    IN IF \A i \in DOMAIN w.agents : w.agents[i].is_dead THEN done("all_agents_dead")
       ELSE IF GetRemainingEvacuees(w) = 0 THEN done("all_rescued")
       ELSE IF w.time >= params.time_cap THEN done("time_limit")
       ELSE w

\* Simulator._check_completion
CheckCompletion(w) ==
    LET done(reason) == LogEvent([w EXCEPT !.complete = TRUE, !.running = FALSE],
                                 "simulation_end", 0 - 1, NoRoom, reason)
    IN IF GetRemainingEvacuees(w) = 0 THEN done("all_rescued")
       ELSE IF \A i \in DOMAIN w.agents : w.agents[i].is_dead THEN done("all_agents_dead")
       ELSE IF w.time >= params.time_cap THEN done("time_limit")
       ELSE w

\* step with a slip: the tick counter and the clock advance before the
\* termination check.
StepWorldCountFirst(w, newly) ==
    LET w1 == UpdateHazards(w, newly)
        w2 == CheckAgentSafety(w1)
        w3 == ProcessFrom(w2, 0)
    IN CheckCompletion([w3 EXCEPT !.tick = @ + 1, !.time = @ + params.dt])

\* Simulator.step
StepWorld(w, newly) ==
    LET w1 == UpdateHazards(w, newly)
        w2 == CheckAgentSafety(w1)
        w3 == ProcessFrom(w2, 0)
        w4 == CheckCompletion(w3)
    IN [w4 EXCEPT !.tick = @ + 1, !.time = @ + params.dt]

\* Sum of two fractions.
AddPri(p, q) ==
    LET a == Reduce(p)
        b == Reduce(q)
    IN Reduce(<<a[1] * b[2] + b[1] * a[2], a[2] * b[2]>>)

\* sum(priorities) over the rescue events es[k..].
RECURSIVE SumPriorities(_, _)
SumPriorities(es, k) ==
    IF k > Len(es) THEN <<0, 1>>
    ELSE AddPri(es[k].info.priority, SumPriorities(es, k + 1))

\* Simulator.get_results: the metrics computed by the simulator itself.  The
\* success score and the average priority are fractions; time is in ms, so
\* rescued * avg_priority / (time * num_agents) has the factor 1000.
get_results(w) ==
    LET total_evac == GetTotalEvacuees
        rescued == total_evac - GetRemainingEvacuees(w)
        total_rooms == Cardinality({r \in RoomIds : ~is_exit(r) /\ ~is_stair(r)})
        cleared_rooms == Cardinality({r \in RoomIds : w.rooms[r].cleared})
        num_agents == params.count
        rescue_events == SelectSeq(w.events, LAMBDA e : e.type = "evacuee_rescued")
        mean(total) == Reduce(<<total[1], total[2] * Len(rescue_events)>>)
        avg_priority == IF Len(rescue_events) > 0
                        THEN mean(SumPriorities(rescue_events, 1))
                        ELSE <<100, 1>>
        score(avg) == IF w.time > 0 /\ num_agents > 0
                      THEN Reduce(<<rescued * avg[1] * 1000, avg[2] * w.time * num_agents>>)
                      ELSE <<0, 1>>
    IN [time |-> w.time, ticks |-> w.tick,
        total_evacuees |-> total_evac, evacuees_rescued |-> rescued,
        total_rooms |-> total_rooms, rooms_cleared |-> cleared_rooms,
        success_score |-> score(avg_priority), avg_priority |-> avg_priority,
        num_responders |-> num_agents]

(***************************************************************************)
(* Inputs, initial state and actions.                                      *)
(***************************************************************************)
\* Evacuee counts of the layout's rooms (only offices hold evacuees).
Evacuees(n1, n2) == [r \in RoomIds |-> IF r = "O1" THEN n1 ELSE IF r = "O2" THEN n2 ELSE 0]

EvacueeChoices == {Evacuees(1, 1), Evacuees(1, 0), Evacuees(2, 0), Evacuees(0, 0)}

\* params: agents.count, simulation.tick_duration, simulation.time_cap,
\* hazard.enabled, agents.speed_hall, agents.speed_stairs, agents.speed_drag,
\* agents.service_time_base, and whether the environment's hazard system has
\* cells (Simulator.grid_pathfinder is then set).
\* (tick_duration, time_cap) pairs: a cap that is a multiple of the tick
\* duration and one that is not.
TimingChoices ==
    {<<1000, MaxTick * 1000>>, <<2000, 2000 * (MaxTick \div 2) + 1000>>}

ParamChoices ==
    {p \in [count : 0..MaxAgents, dt : {1000, 2000},
            time_cap : {t[2] : t \in TimingChoices},
            hazard_enabled : BOOLEAN, evacuees : EvacueeChoices,
            speed_hall : {1500}, speed_stairs : {800}, speed_drag : {600},
            service_time_base : {1000}, grid_pathfinder : {TRUE}, rows : {2}] :
        <<p.dt, p.time_cap>> \in TimingChoices}

\* No library function has been called directly.
NoCall == [fn |-> "none"]

\* AgentManager.__init__: no stair is occupied, no agent waits for one.
NoStairsUsed ==
    [occupancy |-> [s \in {r \in RoomIds : is_stair(r)} |-> NoAgent],
     queues |-> [s \in {r \in RoomIds : is_stair(r)} |-> <<>>]]

\* Simulator.__init__ on a freshly built Environment.
InitWith(choices) ==
    /\ params \in choices
    /\ agents = [i \in 0..(params.count - 1) |-> NewAgent(RoomCell(exits[1]))]
    /\ rooms = [r \in RoomIds |-> [cleared |-> FALSE, cleared_tick |-> 0 - 1,
                                   evacuees_remaining |-> params.evacuees[r],
                                   discovered_evacuees |-> FALSE]]
    /\ burning = IF params.hazard_enabled THEN IgnitionCells ELSE {}
    /\ events = <<>>
    /\ tick = 0
    /\ time = 0
    /\ running = FALSE
    /\ complete = FALSE
    /\ pc = "idle"
    /\ max_ticks = 0
    /\ stairs = NoStairsUsed
    /\ call = NoCall

Init == InitWith(ParamChoices)

\* What the hazard update of one tick may set on fire: any part of the
\* frontier (each neighbour ignites with some probability), while the fire
\* stays within the model's bound.
Ignitable ==
    IF params.hazard_enabled
    THEN {s \in SUBSET Frontier(burning) : Cardinality(burning \cup s) <= MaxBurning}
    ELSE {{}}

SetWorld(w) ==
    /\ agents' = w.agents
    /\ rooms' = w.rooms
    /\ burning' = w.burning
    /\ events' = w.events
    /\ tick' = w.tick
    /\ time' = w.time
    /\ running' = w.running
    /\ complete' = w.complete
    /\ stairs' = w.stairs

\* A caller invokes Simulator.step() directly.
Step ==
    /\ pc = "idle"
    /\ tick < MaxTick
    /\ \E newly \in Ignitable : SetWorld(StepWorld(World, newly))
    /\ UNCHANGED <<params, pc, max_ticks, call>>

\* Simulator.run: entry, with max_ticks = None, on a new simulator.
Run ==
    /\ pc = "idle"
    /\ tick = 0
    /\ running' = TRUE
    /\ max_ticks' = (params.time_cap \div params.dt) + 1
    /\ pc' = "running"
    /\ UNCHANGED <<agents, rooms, burning, events, tick, time, complete, params, stairs,
                   call>>

\* Simulator.run: one iteration of the while loop.
RunStep ==
    /\ pc = "running"
    /\ running /\ tick < max_ticks
    /\ \E newly \in Ignitable : SetWorld(StepWorld(World, newly))
    /\ UNCHANGED <<params, pc, max_ticks, call>>

\* Simulator.run: the loop ends and the results are returned.
RunReturn ==
    /\ pc = "running"
    /\ ~(running /\ tick < max_ticks)
    /\ pc' = "returned"
    /\ UNCHANGED <<agents, rooms, burning, events, tick, time, running, complete, params,
                   max_ticks, stairs, call>>

Next == Step \/ Run \/ RunStep \/ RunReturn

Spec == Init /\ [][Next]_vars

(***************************************************************************)
(* Room mode: the simulator is built on an environment without a cell       *)
(* hazard field (hazard_system is None), so grid_pathfinder is None, agents *)
(* follow room paths and take the stair S one at a time.                    *)
(***************************************************************************)
RoomParamChoices ==
    {p \in [count : 1..MaxStairAgents, dt : {1000, 2000},
            time_cap : {t[2] : t \in TimingChoices},
            hazard_enabled : {FALSE}, evacuees : EvacueeChoices,
            speed_hall : {1500}, speed_stairs : {800}, speed_drag : {600},
            service_time_base : {1000}, grid_pathfinder : {FALSE}, rows : {2}] :
        <<p.dt, p.time_cap>> \in TimingChoices}

InitRooms == InitWith(RoomParamChoices)

SpecRooms == InitRooms /\ [][Next]_vars

(***************************************************************************)
(* Reset: a caller invokes Simulator.reset() once, between steps or after   *)
(* run() has returned, and goes on from there.                              *)
(***************************************************************************)
\* Simulator.reset: the counters, flags and the event log are cleared, the
\* rooms' cleared, evacuees_remaining and discovered_evacuees are set back,
\* a new AgentManager is built; the hazard system's cells are not touched.
Reset ==
    /\ pc \in {"idle", "returned"}
    /\ call = NoCall
    /\ tick' = 0
    /\ time' = 0
    /\ running' = FALSE
    /\ complete' = FALSE
    /\ events' = <<>>
    /\ rooms' = [r \in RoomIds |->
                    [rooms[r] EXCEPT !.cleared = FALSE,
                                     !.evacuees_remaining = params.evacuees[r],
                                     !.discovered_evacuees = FALSE]]
    /\ agents' = [i \in 0..(params.count - 1) |-> NewAgent(RoomCell(exits[1]))]
    /\ stairs' = NoStairsUsed
    /\ pc' = "idle"
    /\ call' = [fn |-> "reset"]
    /\ UNCHANGED <<burning, params, max_ticks>>

NextReset == Step \/ Run \/ RunStep \/ RunReturn \/ Reset

SpecReset == Init /\ [][NextReset]_vars

(***************************************************************************)
(* Direct calls of the library functions, as the comparison scripts make    *)
(* them (algorithm_comparison.py calls find_path with avoid_danger=False):  *)
(* the fire may be anywhere off the walls, the arguments are drawn from     *)
(* small sets.  The functions do not change the state, so one call per      *)
(* behaviour covers them.                                                  *)
(***************************************************************************)
\* danger_threshold arguments: the two values the simulator passes.
DangerThresholds == {80, 85}

\* Sample arguments of the priority arithmetic: mean room danger in percent
\* and Manhattan distance in mm, below, at and above the 5 m minimum.
HazardSamples == {0, 20, 100}
DistanceSamples == {0, 2500, 5000, 10000, 12500}

\* Heights of the grids find_path is called on; the taller one has no fire.
GridRows == {2, 3}

InitCalls ==
    /\ params \in {[p EXCEPT !.rows = n] :
                       p \in {q \in ParamChoices :
                                 q.count = 0 /\ q.dt = 1000 /\ q.hazard_enabled},
                       n \in GridRows}
    /\ agents = [i \in 0..(params.count - 1) |-> NewAgent(RoomCell(exits[1]))]
    /\ rooms = [r \in RoomIds |-> [cleared |-> FALSE, cleared_tick |-> 0 - 1,
                                   evacuees_remaining |-> params.evacuees[r],
                                   discovered_evacuees |-> FALSE]]
    /\ burning \in {b \in SUBSET (GridCells \ wall_cells) :
                        Cardinality(b) <= IF params.rows = 2 THEN MaxBurning ELSE 0}
    /\ events = <<>>
    /\ tick = 0
    /\ time = 0
    /\ running = FALSE
    /\ complete = FALSE
    /\ pc = "idle"
    /\ max_ticks = 0
    /\ stairs = NoStairsUsed
    /\ call = NoCall

\* GridPathfinder.find_path is called from one cell's centre to another's.
CallFindPath ==
    /\ call = NoCall
    /\ \E from \in GridCells, to \in GridCells,
          avoid_danger \in BOOLEAN, danger_threshold \in DangerThresholds :
          call' = [fn |-> "find_path", from |-> from, to |-> to,
                   avoid_danger |-> avoid_danger, danger_threshold |-> danger_threshold,
                   path |-> find_path(burning, from, to, avoid_danger, danger_threshold)]
    /\ UNCHANGED <<agents, rooms, burning, events, tick, time, running, complete, params,
                   pc, max_ticks, stairs>>

\* DecisionEngine.calculate_priority_index is called for an office, the
\* caller standing in any room.
CallPriorityIndex ==
    /\ call = NoCall
    /\ \E room_id \in {r \in RoomIds : IsOffice(r)}, agent_position \in RoomIds :
          call' = [fn |-> "calculate_priority_index",
                   room_id |-> room_id, agent_position |-> agent_position,
                   priority |-> calculate_priority_index(World, room_id, agent_position)]
    /\ UNCHANGED <<agents, rooms, burning, events, tick, time, running, complete, params,
                   pc, max_ticks, stairs>>

\* The arithmetic of calculate_priority_index on an accessible room with
\* E_i evacuees, mean danger D_i and the caller at the given distance.
CallPriorityFormula ==
    /\ call = NoCall
    /\ \E E_i \in 1..MaxEvacuees, D_i \in HazardSamples, distance \in DistanceSamples :
          call' = [fn |-> "priority_formula", E_i |-> E_i, D_i |-> D_i,
                   distance |-> distance,
                   priority |-> PriorityFormula(E_i, D_i, distance)]
    /\ UNCHANGED <<agents, rooms, burning, events, tick, time, running, complete, params,
                   pc, max_ticks, stairs>>

NextCalls == CallFindPath \/ CallPriorityIndex \/ CallPriorityFormula

SpecCalls == InitCalls /\ [][NextCalls]_vars

(***************************************************************************)
(* Properties.                                                             *)
(***************************************************************************)
RECURSIVE SumRescuedFrom(_)
SumRescuedFrom(i) ==
    IF i >= Cardinality(DOMAIN agents) THEN 0
    ELSE agents[i].evacuees_rescued + SumRescuedFrom(i + 1)

Carriers == {i \in DOMAIN agents : agents[i].carrying_evacuee}

Offices == {r \in RoomIds : IsOffice(r)}

EndReasons == {"all_rescued", "all_agents_dead", "time_limit"}

\* A cell on which the safety check kills: burning, or danger above 0.95.
Lethal(b, c) == c \in GridCells /\ (danger_level(b, c) > 95 \/ c \in b)

\* C1: evacuee conservation.  In every reachable state the evacuees rescued by
\* the agents, plus the evacuees remaining in the rooms, plus the agents that
\* carry an evacuee, add up to the initial number of evacuees.
C1_Conservation ==
    SumRescuedFrom(0) + GetRemainingEvacuees(World) + Cardinality(Carriers)
        = GetTotalEvacuees

C3_StairMutualExclusion ==
    ~complete =>
    \A s \in {r \in RoomIds : is_stair(r)} :
        Cardinality({i \in DOMAIN agents :
                        /\ ~agents[i].is_dead
                        /\ agents[i].state \in {"moving", "dragging", "escaping"}
                        /\ CellRoom(agents[i].cell) = s}) <= 1

\* C4: every EvacueeRescued event is preceded in the log by an EvacueeFound
\* event whose room is the source room the rescue event carries.
C4_RescuedAfterFound ==
    \A k \in 1..Len(events) :
        events[k].type = "evacuee_rescued" =>
            \E j \in 1..(k - 1) :
                events[j].type = "evacuee_found"
                /\ events[j].room = events[k].info.source_room

\* An evacuee has been delivered to an exit.
C4_Witness ==
    \E k \in 1..Len(events) :
        events[k].type = "evacuee_rescued" /\ events[k].info.source_room \in Offices

\* C5: complete sweep without hazard.  With the hazard disabled, one responder
\* and at least one evacuee, when run() has returned before the time cap (its
\* last event reports all_rescued) every office is cleared and no room has an
\* evacuee left.
C5_CompleteSweep ==
    (/\ pc = "returned" /\ ~params.hazard_enabled /\ params.count = 1
     /\ GetTotalEvacuees > 0
     /\ Len(events) > 0
     /\ events[Len(events)].type = "simulation_end"
     /\ events[Len(events)].info = "all_rescued") =>
        /\ \A r \in Offices : rooms[r].cleared
        /\ \A r \in RoomIds : rooms[r].evacuees_remaining = 0

\* C6: when run() returns, complete is true and a SimulationEnd event with
\* reason all_rescued, all_agents_dead or time_limit has been logged.
C6_RunEndsComplete ==
    pc = "returned" =>
        /\ complete
        /\ \E k \in 1..Len(events) :
              events[k].type = "simulation_end" /\ events[k].info \in EndReasons

\* C7: during and after run() a SimulationEnd event is the last event of the
\* log and carries one of the three termination reasons; an agent's death
\* does not produce one.
C7_SimulationEndOnlyAtEnd ==
    pc \in {"running", "returned"} =>
        \A k \in 1..Len(events) :
            events[k].type = "simulation_end" =>
                k = Len(events) /\ events[k].info \in EndReasons

\* The agents that finish a search of room r in this step.
Finishers(r) ==
    {i \in DOMAIN agents :
        /\ agents[i].state = "searching" /\ agents[i].current_room = r
        /\ ~agents'[i].is_dead
        /\ agents'[i].rooms_cleared = agents[i].rooms_cleared + 1}

\* C8: for every room 0 <= evacuees_remaining <= the initial count, the value
\* never increases, and it decreases only by pickups: each agent finishing a
\* search of the room removes exactly one evacuee while one is left.
C8_RemainingBoundedMonotone ==
    /\ [](\A r \in RoomIds : /\ 0 <= rooms[r].evacuees_remaining
                            /\ rooms[r].evacuees_remaining <= params.evacuees[r])
    /\ [][\A r \in RoomIds :
             /\ rooms'[r].evacuees_remaining <= rooms[r].evacuees_remaining
             /\ rooms'[r].evacuees_remaining =
                   rooms[r].evacuees_remaining
                     - Min(rooms[r].evacuees_remaining, Cardinality(Finishers(r)))]_vars

\* Two agents finished their search of one room in the same tick and each
\* picked up one of its two evacuees.
C8_Witness ==
    \E r \in Offices :
        /\ params.evacuees[r] = 2 /\ rooms[r].evacuees_remaining = 0
        /\ Cardinality({i \in DOMAIN agents :
                           agents[i].carrying_evacuee
                           /\ agents[i].evacuee_source_room = r}) = 2

C11_NoAgentsEndReason ==
    params.count = 0 =>
        \A k \in 1..Len(events) :
            events[k].type = "simulation_end" =>
                \/ events[k].info = "time_limit"
                \/ events[k].info = "all_rescued" /\ GetTotalEvacuees = 0

\* C12: with zero evacuees in the layout the first step logs SimulationEnd
\* with reason all_rescued carrying tick 0, the simulation is complete from
\* that step on, and the success score of the results is 0.
C12_ZeroEvacuees ==
    GetTotalEvacuees = 0 =>
        /\ get_results(World).success_score[1] = 0
        /\ tick >= 1 =>
              /\ complete
              /\ \E k \in 1..Len(events) :
                    /\ events[k].type = "simulation_end"
                    /\ events[k].info = "all_rescued"
                    /\ events[k].tick = 0
              /\ \A k \in 1..Len(events) :
                    (events[k].type = "simulation_end" /\ events[k].tick = 0)
                        => events[k].info \in {"all_rescued", "agent_death"}

\* A simulation with agents and no evacuees has made its first step.
C12_Witness ==
    /\ GetTotalEvacuees = 0 /\ params.count > 0 /\ tick = 1 /\ complete
    /\ time > 0
    /\ events[Len(events)].info = "all_rescued"

\* C13: an agent that carries an evacuee (and has not died) is in state
\* Dragging, never Idle, Moving, Searching or Queued.
C13_CarrierIsDragging ==
    \A i \in DOMAIN agents :
        (agents[i].carrying_evacuee /\ ~agents[i].is_dead) => agents[i].state = "dragging"

\* The world the first agent of the loop sees in this step: the hazards are
\* updated, no other agent has acted yet.
SeenByFirst == [World EXCEPT !.burning = burning']

\* C14: room selection.  Whenever the Idle agent processed first in a tick of
\* a simulation that goes on is assigned a target room, the room is in the
\* uncleared pool and has priority > 0, no uncleared room to which a path
\* exists has a greater priority, and among such rooms of equal priority it is
\* the one with the lowest room id.
C14_RoomSelection ==
    [][(/\ tick' = tick + 1 /\ ~complete'
        /\ 0 \in DOMAIN agents
        /\ agents[0].state = "idle" /\ ~agents[0].is_dead /\ ~agents[0].escaped
        /\ agents'[0].state = "moving") =>
           LET w == SeenByFirst
               pool == GetUnclearedRooms(w)
               pri(r) == calculate_priority_index(w, r, agents[0].current_room)
               pathful(r) == Len(find_path(w.burning, agents[0].cell, RoomCell(r), TRUE, 80)) > 1
               chosen == agents'[0].target_room
               pos(r) == CHOOSE k \in 1..Len(OfficeOrder) : OfficeOrder[k] = r
           IN /\ \E k \in 1..Len(pool) : pool[k] = chosen
              /\ PriGreater(pri(chosen), <<0, 1>>)
              /\ \A k \in 1..Len(pool) :
                    pathful(pool[k]) =>
                        /\ ~PriGreater(pri(pool[k]), pri(chosen))
                        /\ (~PriGreater(pri(chosen), pri(pool[k])) /\ pool[k] # chosen)
                              => pos(chosen) < pos(pool[k])]_vars

\* C15: pathfinder traversal rule.  Every cell after the first on a path
\* returned by find_path is a grid cell that is not a wall and not burning,
\* with avoid_danger true or false; with avoid_danger true its danger does not
\* exceed the threshold; consecutive cells of the path are 8-neighbours.
C15_PathTraversable ==
    call.fn = "find_path" =>
        \A k \in 2..Len(call.path) :
            /\ call.path[k] \in GridCells \ wall_cells
            /\ call.path[k] \notin burning
            /\ call.avoid_danger => danger_level(burning, call.path[k]) <= call.danger_threshold
            /\ call.path[k] \in Neighbours8(call.path[k - 1])

\* C16: the set of burning cells never shrinks (a cell that burns after a
\* tick burns after every later tick), and a wall cell is never burning.
C16_BurningMonotone ==
    /\ [](burning \cap wall_cells = {})
    /\ [][burning \subseteq burning']_vars

\* The fire has spread next to the wall and ticks have passed since.
C16_Witness ==
    /\ \E c \in burning \ IgnitionCells : \E x \in wall_cells : Chebyshev(c, x) = 1
    /\ \E k \in 1..Len(events) : events[k].tick >= 3

\* C17: within one tick of a simulation that is not complete the events of
\* the log are ordered by emitting agent id: no event of an agent with a higher id precedes an event of an agent
\* with a lower id in the same tick, the death events of the safety check
\* included.
C17_EventsOrderedByAgent ==
    ~complete =>
    \A j \in 1..Len(events), k \in 1..Len(events) :
        (/\ j < k /\ events[j].tick = events[k].tick
         /\ events[j].agent >= 0 /\ events[k].agent >= 0) =>
            events[j].agent <= events[k].agent

\* The fraction p has the value num / den.
PriorityEquals(p, num, den) == Reduce(p) = Reduce(<<num, den>>)

\* calculate_priority_index returns 0 for this call: no evacuees, no path from
\* the caller's room, or a cell around the door burning or above 0.85 danger.
ZeroPriorityCase ==
    \/ rooms[call.room_id].evacuees_remaining = 0
    \/ ~HasRoomPath(call.agent_position, call.room_id)
    \/ \E c \in DoorCells(call.room_id) : c \in burning \/ danger_level(burning, c) > 85

\* Manhattan distance in mm between the centres of the rooms of the call.
CallDistance == 500 * Manhattan(RoomCell(call.room_id), RoomCell(call.agent_position))

C19_EscapingAdvances ==
    [][(tick' = tick + 1 /\ ~complete') =>
          \A i \in DOMAIN agents :
              (agents[i].state = "escaping" /\ ~agents'[i].is_dead) =>
                  \/ agents'[i].escaped
                  \/ agents'[i].cell # agents[i].cell
                  \/ agents'[i].rem # agents[i].rem
                  \/ agents'[i].current_waypoint # agents[i].current_waypoint]_vars

\* C20: in every tick of a simulation that goes on, a Moving or Dragging
\* agent (not killed in the tick) whose next waypoint cell is burning or above
\* the kill threshold once the hazards are updated does not advance: it keeps
\* its position and its state.
C20_NoAdvanceOntoLethalCell ==
    [][(tick' = tick + 1 /\ ~complete') =>
          \A i \in DOMAIN agents :
              (/\ agents[i].state \in {"moving", "dragging"}
               /\ ~agents'[i].is_dead
               /\ agents[i].current_waypoint < Len(agents[i].waypoints)
               /\ Lethal(burning', agents[i].waypoints[agents[i].current_waypoint + 1])) =>
                  /\ agents'[i].cell = agents[i].cell
                  /\ agents'[i].rem = agents[i].rem
                  /\ agents'[i].state = agents[i].state]_vars

\* C21: without hazard and before the end, when the (single) agent arrives at a room that has
\* been searched (cleared) and still holds evacuees, it picks up exactly one
\* of them and starts dragging it to an exit.
C21_SecondPickup ==
    [][(/\ tick' = tick + 1 /\ ~complete'
        /\ ~params.hazard_enabled /\ params.count = 1) =>
          \A i \in DOMAIN agents :
              LET r == agents[i].target_room
              IN (/\ agents[i].state = "moving" /\ ~agents[i].is_dead
                  /\ agents[i].current_waypoint >= Len(agents[i].waypoints)
                  /\ r \in Offices
                  /\ rooms[r].cleared /\ rooms[r].evacuees_remaining > 0) =>
                     /\ agents'[i].carrying_evacuee
                     /\ agents'[i].state = "dragging"
                     /\ rooms'[r].evacuees_remaining = rooms[r].evacuees_remaining - 1]_vars

\* The stair rooms.
Stairs == {r \in RoomIds : is_stair(r)}

\* The index of agent i's latest AgentQueued event for stair s (0: none).
LastQueued(i, s) ==
    LET ks == {k \in 1..Len(events) : /\ events[k].type = "agent_queued"
                                      /\ events[k].agent = i /\ events[k].room = s}
    IN IF ks = {} THEN 0 ELSE CHOOSE k \in ks : \A m \in ks : m <= k

\* C22: the stair queue is first-in first-out.  No agent is twice in a queue;
\* whenever a stair gets a new occupant while agents are queued for it, the
\* new occupant is the head of the queue; an agent leaves a queue only by
\* getting the stair, and the agents that stay keep their order, later
\* requesters behind them.
C22_StairFifo ==
    /\ [](\A s \in Stairs :
            \A k, m \in 1..Len(stairs.queues[s]) :
                stairs.queues[s][k] = stairs.queues[s][m] => k = m)
    /\ [][\A s \in Stairs :
            LET q == stairs.queues[s]
                q2 == stairs'.queues[s]
                o2 == stairs'.occupancy[s]
            IN /\ (o2 # NoAgent /\ o2 # stairs.occupancy[s] /\ q # <<>>) => o2 = Head(q)
               /\ \A k \in 1..Len(q) :
                     \/ k = 1 /\ o2 = q[1] /\ (\A m \in 1..Len(q2) : q2[m] # q[1])
                     \/ \E m \in 1..Len(q2) :
                           /\ q2[m] = q[k]
                           /\ \A j \in 1..(k - 1) :
                                 (\E n \in 1..Len(q2) : q2[n] = q[j]) =>
                                    \E n \in 1..(m - 1) : q2[n] = q[j]
               /\ \A m \in 1..Len(q2) :
                     (\A k \in 1..Len(q) : q[k] # q2[m]) =>
                        \A n \in 1..Len(q2) :
                           (\E k \in 1..Len(q) : q[k] = q2[n]) => n < m]_vars

\* An agent that queued for the stair holds it while an agent that asked
\* for it in a later tick is still waiting.
C22_Witness ==
    \E s \in Stairs :
        /\ stairs.occupancy[s] # NoAgent
        /\ stairs.queues[s] # <<>>
        /\ LastQueued(stairs.occupancy[s], s) > 0
        /\ events[LastQueued(stairs.occupancy[s], s)].tick
              < events[LastQueued(Head(stairs.queues[s]), s)].tick

\* The edge a room-path agent is about to traverse is a stair edge.
OnStairEdge(a) ==
    /\ a.path_index < Len(a.path)
    /\ has_edge(a.current_room, a.path[a.path_index + 1])
    /\ EdgeIsStair(a.current_room, a.path[a.path_index + 1])

\* The speed the movement rule gives an agent: the drag speed when it
\* carries an evacuee, else the stair speed on a stair edge, else the hall
\* speed.
RuleSpeed(a) ==
    IF a.carrying_evacuee THEN params.speed_drag
    ELSE IF OnStairEdge(a) THEN params.speed_stairs
    ELSE params.speed_hall

\* C23: in a tick of a running simulation no agent covers more than
\* speed * dt, where speed is speed_drag for a carrier (also on a stair
\* edge), else speed_stairs on a stair edge, else speed_hall.
C23_MovementSpeed ==
    [][(tick' = tick + 1 /\ ~complete) =>
          \A i \in DOMAIN agents :
              agents'[i].total_distance_traveled - agents[i].total_distance_traveled
                 <= (RuleSpeed(agents[i]) * params.dt) \div 1000]_vars

\* The events logged since the state before the step.
NewEvents == SubSeq(events', Len(events) + 1, Len(events'))

\* C24: an agent that is Searching, and alive after the tick, stays
\* Searching with its remaining time reduced by dt while that stays
\* positive; in the tick it reaches zero or less the room is cleared, the
\* agent logs one RoomCleared event, and it either picks up exactly one
\* evacuee and is Dragging to an exit, or, when no evacuee is left in the
\* room, is Idle and carries nothing.
C24_SearchCompletion ==
    [][(tick' = tick + 1 /\ ~complete) =>
          \A i \in DOMAIN agents :
              (agents[i].state = "searching" /\ ~agents'[i].is_dead) =>
                 LET r == agents[i].current_room
                     left == agents[i].time_remaining_action - params.dt
                 IN IF left > 0
                    THEN /\ agents'[i].state = "searching"
                         /\ agents'[i].time_remaining_action = left
                    ELSE /\ rooms'[r].cleared
                         /\ Cardinality({k \in 1..Len(NewEvents) :
                                            /\ NewEvents[k].type = "room_cleared"
                                            /\ NewEvents[k].agent = i
                                            /\ NewEvents[k].room = r}) = 1
                         /\ rooms[r].evacuees_remaining - rooms'[r].evacuees_remaining
                              = Cardinality({j \in DOMAIN agents :
                                               /\ ~agents[j].carrying_evacuee
                                               /\ agents'[j].carrying_evacuee
                                               /\ agents'[j].evacuee_source_room = r})
                         /\ \/ /\ agents'[i].state = "dragging"
                               /\ agents'[i].carrying_evacuee
                               /\ is_exit(agents'[i].target_room)
                               /\ agents'[i].evacuee_source_room = r
                            \/ /\ agents'[i].state = "idle"
                               /\ ~agents'[i].carrying_evacuee
                               /\ rooms'[r].evacuees_remaining = 0]_vars

\* The part of a tick that logs event e: 1 the safety check (death events),
\* 2 the agents' steps, 3 the termination check.
EventPhase(e) ==
    IF e.type # "simulation_end" THEN 2 ELSE IF e.agent >= 0 THEN 1 ELSE 3

\* C25: the order within a tick.  The tick counter grows by 1 and the time by
\* dt; every event logged in the tick carries the tick number and time of
\* before that; the safety check acts on the hazards as updated in this tick
\* and on the agents as they stood before it; its death events come first,
\* then the events of the agents' steps in increasing agent id, of agents
\* neither dead nor escaped, then the SimulationEnd of the termination check,
\* which sees the rooms and agents as the steps left them.  Event ticks never
\* decrease along the log.
C25_TickOrder ==
    /\ [](\A j, k \in 1..Len(events) : j < k => events[j].tick <= events[k].tick)
    /\ [][tick' # tick =>
            /\ tick' = tick + 1
            /\ time' = time + params.dt
            /\ \A k \in 1..Len(NewEvents) :
                  NewEvents[k].tick = tick /\ NewEvents[k].time = time
            /\ \A i \in DOMAIN agents :
                  ~agents[i].is_dead =>
                     (agents'[i].is_dead <=> Lethal(burning', agents[i].cell))
            /\ \A j, k \in 1..Len(NewEvents) :
                  j < k =>
                     /\ EventPhase(NewEvents[j]) <= EventPhase(NewEvents[k])
                     /\ (EventPhase(NewEvents[j]) = 2 /\ EventPhase(NewEvents[k]) = 2) =>
                           NewEvents[j].agent <= NewEvents[k].agent
            /\ \A k \in 1..Len(NewEvents) :
                  EventPhase(NewEvents[k]) = 2 =>
                     /\ ~agents'[NewEvents[k].agent].is_dead
                     /\ ~agents[NewEvents[k].agent].escaped
            /\ (\E k \in 1..Len(NewEvents) : EventPhase(NewEvents[k]) = 3)
                  <=> \/ SumRemaining(rooms', RoomIds) = 0
                      \/ \A i \in DOMAIN agents : agents'[i].is_dead
                      \/ time >= params.time_cap]_vars

\* A tick in which an agent died in the safety check, another agent acted
\* and the simulation ended, all logged with the same tick number.
C25_Witness ==
    \E j, k, m \in 1..Len(events) :
        /\ j < k /\ k < m
        /\ events[j].tick = events[m].tick /\ events[k].tick = events[m].tick
        /\ events[m].tick = tick - 1
        /\ EventPhase(events[j]) = 1
        /\ EventPhase(events[k]) = 2
        /\ EventPhase(events[m]) = 3

\* C26: whenever get_results() is called, evacuees_rescued is the number of
\* EvacueeRescued events in the log and the sum of the agents'
\* evacuees_rescued counters (so evacuees that were only picked up, or are
\* carried by a dead agent, do not count), and the simulation has not ended
\* with all_rescued while an agent carries an evacuee.
C26_ReportedRescues ==
    /\ get_results(World).evacuees_rescued
         = Cardinality({k \in 1..Len(events) : events[k].type = "evacuee_rescued"})
    /\ get_results(World).evacuees_rescued = SumRescuedFrom(0)
    /\ (complete /\ GetRemainingEvacuees(World) = 0) =>
          \A i \in DOMAIN agents : ~agents[i].carrying_evacuee

\* Sum of the agents' rooms_cleared counters, from agent i on.
RECURSIVE SumClearedFrom(_)
SumClearedFrom(i) ==
    IF i \notin DOMAIN agents THEN 0
    ELSE agents[i].rooms_cleared + SumClearedFrom(i + 1)

\* C27: each room is searched at most once.  No two agents are Searching the
\* same room at the same time, the log holds at most one RoomCleared event
\* per room, and the agents' rooms_cleared counters sum to no more than the
\* number of cleared rooms (stated for a simulation that has not ended).
C27_SearchedOnce ==
    ~complete =>
    /\ \A i, j \in DOMAIN agents :
          (/\ i # j
           /\ agents[i].state = "searching" /\ agents[j].state = "searching"
           /\ ~agents[i].is_dead /\ ~agents[j].is_dead) =>
              agents[i].current_room # agents[j].current_room
    /\ \A j, k \in 1..Len(events) :
          (/\ events[j].type = "room_cleared" /\ events[k].type = "room_cleared"
           /\ events[j].room = events[k].room) => j = k
    /\ SumClearedFrom(0) <= Cardinality({r \in RoomIds : rooms[r].cleared})

\* Agent i waits in the queue of stair s.
InQueue(i, s) == \E k \in 1..Len(stairs.queues[s]) : stairs.queues[s][k] = i

SnapCell(c) ==
    IF c \notin GridCells \/ c \in wall_cells THEN FindNearestValidCell(c) ELSE c

\* The cells of a grid of up to three rows numbered 1..12, row by row.
CellIndex(c) == c[1] + 4 * c[2] + 1
CellOf(k) == <<(k - 1) % 4, (k - 1) \div 4>>

\* Least cost of reaching cell number k from the start in one more step than
\* the costs d (NoG: not reached) allow, stepping only onto cells find_path
\* may enter.
RelaxCell(b, avoid_danger, danger_threshold, d, k) ==
    LET c == CellOf(k)
        from == {m \in Neighbours8(c) : d[CellIndex(m)] # NoG}
        via(m) == d[CellIndex(m)] + EdgeCost(b, m, c, avoid_danger)
        least == CHOOSE m \in from : \A o \in from : via(m) <= via(o)
    IN IF ~IsValidCell(b, c, avoid_danger, danger_threshold) \/ from = {} THEN d[k]
       ELSE IF d[k] = NoG THEN via(least)
       ELSE Min(d[k], via(least))

RECURSIVE RelaxAll(_, _, _, _, _)
RelaxAll(b, avoid_danger, danger_threshold, d, n) ==
    IF n = 0 THEN d
    ELSE RelaxAll(b, avoid_danger, danger_threshold,
                  <<RelaxCell(b, avoid_danger, danger_threshold, d, 1),
                    RelaxCell(b, avoid_danger, danger_threshold, d, 2),
                    RelaxCell(b, avoid_danger, danger_threshold, d, 3),
                    RelaxCell(b, avoid_danger, danger_threshold, d, 4),
                    RelaxCell(b, avoid_danger, danger_threshold, d, 5),
                    RelaxCell(b, avoid_danger, danger_threshold, d, 6),
                    RelaxCell(b, avoid_danger, danger_threshold, d, 7),
                    RelaxCell(b, avoid_danger, danger_threshold, d, 8),
                    RelaxCell(b, avoid_danger, danger_threshold, d, 9),
                    RelaxCell(b, avoid_danger, danger_threshold, d, 10),
                    RelaxCell(b, avoid_danger, danger_threshold, d, 11),
                    RelaxCell(b, avoid_danger, danger_threshold, d, 12)>>,
                  n - 1)

\* The least total edge cost of a path from start to goal (NoG: no path).
MinCost(b, start, goal, avoid_danger, danger_threshold) ==
    LET at(k) == IF k = CellIndex(start) THEN 0 ELSE NoG
    IN RelaxAll(b, avoid_danger, danger_threshold,
                <<at(1), at(2), at(3), at(4), at(5), at(6), at(7), at(8),
                  at(9), at(10), at(11), at(12)>>,
                Cardinality(GridCells) - 1)[CellIndex(goal)]

\* Total edge cost of path[k..].
RECURSIVE PathCostFrom(_, _, _, _)
PathCostFrom(b, path, avoid_danger, k) ==
    IF k >= Len(path) THEN 0
    ELSE EdgeCost(b, path[k], path[k + 1], avoid_danger)
           + PathCostFrom(b, path, avoid_danger, k + 1)

\* C29: path optimality.  find_path returns no path only when the goal
\* cannot be reached over cells it may enter; a path it returns leads from
\* the start cell to the goal cell and its total edge cost (0.5 m straight,
\* 0.707 m diagonal, plus the danger penalty with avoid_danger) is the least
\* among all such paths.
C29_PathOptimal ==
    call.fn = "find_path" =>
        LET best == MinCost(burning, SnapCell(call.from), SnapCell(call.to),
                            call.avoid_danger, call.danger_threshold)
        IN IF call.path = <<>> THEN best = NoG
           ELSE /\ call.path[1] = SnapCell(call.from)
                /\ call.path[Len(call.path)] = SnapCell(call.to)
                /\ PathCostFrom(burning, call.path, call.avoid_danger, 1) = best

\* C30: reset() restores the initial state.  Right after the call the
\* counters, flags and event log, the rooms' cleared flags and evacuees, the
\* agents, the stair occupancy and queues and the burning cells (with them
\* the danger levels) are what Simulator.__init__ on a new environment with
\* the same layout and parameters gives, so that a run() from there repeats
\* the run of a new simulator.
C30_ResetRestoresInitial ==
    [][(call = NoCall /\ call' = [fn |-> "reset"]) =>
          /\ tick' = 0 /\ time' = 0 /\ ~running' /\ ~complete' /\ events' = <<>>
          /\ agents' = [i \in 0..(params.count - 1) |-> NewAgent(RoomCell(exits[1]))]
          /\ \A r \in RoomIds :
                /\ ~rooms'[r].cleared
                /\ rooms'[r].evacuees_remaining = params.evacuees[r]
                /\ ~rooms'[r].discovered_evacuees
          /\ stairs' = NoStairsUsed
          /\ burning' = IF params.hazard_enabled THEN IgnitionCells ELSE {}]_vars

====
